---- MODULE Spec2Model ----
(***************************************************************************)
(* A model of the FortunasBet CDK application: the synthesis run of        *)
(* bin/fortunas_cdk.ts (getEnvConfig, main), the WebsiteStack, ApiStack    *)
(* and ApiDnsStack constructors, and the two string helpers of             *)
(* websiteStack.ts.  Strings are sequences of one-character strings, so    *)
(* that length, position, splitting and concatenation are those of the     *)
(* program's strings.                                                      *)
(***************************************************************************)
EXTENDS Integers, Sequences, FiniteSets, TLC

VARIABLES
    \* the string helpers: the function called, its argument, its result
    fn, arg, ret,
    \* the upload passes: the hashedDirs prop, the files of the build
    \* output, the files of each pass so far, the next pass to define
    hashedDirs, tree, matched, dpc,
    \* the synthesis run: process.env, the local file cdk.env.json, the
    \* position in main, the stacks of the app in construction order, the
    \* configuration object and where it was read from, whether the local
    \* file was read, the error main was rejected with, the index of the
    \* stage of the loop, and the loop body's databaseStack, cognitoStack
    \* and api (positions in the app, 0 before their declaration)
    env, file, pc, stacks, envConfig, configSource, fileRead, err, idx, local

helperVars == <<fn, arg, ret>>
deployVars == <<hashedDirs, tree, matched, dpc>>
mainVars == <<env, file, pc, stacks, envConfig, configSource, fileRead, err,
              idx, local>>
vars == <<fn, arg, ret, hashedDirs, tree, matched, dpc, env, file, pc, stacks,
          envConfig, configSource, fileRead, err, idx, local>>

(***************************************************************************)
(* Bounds.                                                                 *)
(***************************************************************************)
\* longest argument string given to a helper
MaxLen == 5
\* most files in the build output
MaxFiles == 2
\* most stage keys in a configuration object
MaxStages == 2

(***************************************************************************)
(* Strings.                                                                *)
(***************************************************************************)
Max(S) == CHOOSE x \in S : \A y \in S : y <= x

\* the characters the helper arguments are drawn from
HostChars == {"a", "b", ".", "-"}

StringsUpTo(chars, n) == UNION {[1..k -> chars] : k \in 0..n}

\* the positions of the dots of a string
DotPositions(s) == {i \in 1..Len(s) : s[i] = "."}

\* String.prototype.split(sep), sep one character
RECURSIVE split(_, _)
split(s, sep) ==
    LET hits == {i \in 1..Len(s) : s[i] = sep}
    IN  IF hits = {}
        THEN <<s>>
        ELSE LET i == CHOOSE h \in hits : \A g \in hits : h <= g
             IN  <<SubSeq(s, 1, i - 1)>> \o split(SubSeq(s, i + 1, Len(s)), sep)

\* Array.prototype.join(sep)
RECURSIVE join(_, _)
join(parts, sep) ==
    IF Len(parts) = 0 THEN <<>>
    ELSE IF Len(parts) = 1 THEN parts[1]
    ELSE parts[1] \o <<sep>> \o join(Tail(parts), sep)

\* Array.prototype.slice(-n): the last n elements, all of them when fewer
sliceLast(parts, n) ==
    SubSeq(parts, IF Len(parts) > n THEN Len(parts) - n + 1 ELSE 1, Len(parts))

\* a variant that drops the first label instead of keeping the last two
getApexDomainDropFirst(host) ==
    LET parts == split(host, ".")
    IN  IF Len(parts) < 2 THEN host ELSE join(Tail(parts), ".")

getApexDomain(host) ==
    LET parts == split(host, ".")
    IN  IF Len(parts) < 2 THEN host ELSE join(sliceLast(parts, 2), ".")

\* a variant whose regular expression lacks the g flag: first dot only
sanitizeFirstOnly(name) ==
    LET dots == DotPositions(name)
    IN  IF dots = {} THEN name
        ELSE LET i == CHOOSE h \in dots : \A g \in dots : h <= g
             IN  [name EXCEPT ![i] = "-"]

\* name.replace(/\./g, "-")
sanitize(name) == [i \in 1..Len(name) |-> IF name[i] = "." THEN "-" ELSE name[i]]

(***************************************************************************)
(* The three upload passes of WebsiteStack.  A glob is a sequence of       *)
(* characters in which "*" and the class "[a-fA-F0-9]" are single          *)
(* elements.  The globs are handed to the deployment tool, whose sync      *)
(* command matches them as shell patterns against the path from the        *)
(* source directory: "*" stands for any run of characters, "/" included,   *)
(* so that "**/" asks for a directory separator.                           *)
(***************************************************************************)
HexChars == {"a", "b", "c", "d", "e", "f", "A", "B", "C", "D", "E", "F",
             "0", "1", "2", "3", "4", "5", "6", "7", "8", "9"}

RECURSIVE globMatch(_, _)
globMatch(p, s) ==
    IF p = <<>> THEN s = <<>>
    ELSE IF Head(p) = "*"
         THEN globMatch(Tail(p), s) \/ (s # <<>> /\ globMatch(p, Tail(s)))
    ELSE IF s = <<>> THEN FALSE
    ELSE IF Head(p) = "[a-fA-F0-9]"
         THEN Head(s) \in HexChars /\ globMatch(Tail(p), Tail(s))
    ELSE Head(s) = Head(p) /\ globMatch(Tail(p), Tail(s))

matchesAny(globs, f) == \E i \in 1..Len(globs) : globMatch(globs[i], f)

\* "**/*.<ext>"
ExtGlob(e) == <<"*", "*", "/", "*", ".">> \o e

\* props.hashedDirs ?? ["assets/**"]
DefaultHashedDirs == << <<"a", "s", "s", "e", "t", "s", "/", "*", "*">> >>

\* the values of the hashedDirs prop: the default, "assets/**" with
\* "js/**", "static/**", no directory at all, and lists that name what the
\* other passes include: "**/*.js", and "index.html" with "**/*.html"
HashedDirsOptions ==
    { DefaultHashedDirs,
      << <<"a", "s", "s", "e", "t", "s", "/", "*", "*">>,
         <<"j", "s", "/", "*", "*">> >>,
      << <<"s", "t", "a", "t", "i", "c", "/", "*", "*">> >>,
      << >>,
      << ExtGlob(<<"j", "s">>) >>,
      << <<"i", "n", "d", "e", "x", ".", "h", "t", "m", "l">>,
         ExtGlob(<<"h", "t", "m", "l">>) >> }

\* the image and font globs of the DeployHtml exclude list and of the
\* DeployHashed include list: "**/*.png" ... "**/*.ttf"
StaticGlobs ==
    << ExtGlob(<<"p", "n", "g">>),
       ExtGlob(<<"j", "p", "g">>),
       ExtGlob(<<"j", "p", "e", "g">>),
       ExtGlob(<<"s", "v", "g">>),
       ExtGlob(<<"g", "i", "f">>),
       ExtGlob(<<"w", "e", "b", "p">>),
       ExtGlob(<<"i", "c", "o">>),
       ExtGlob(<<"w", "o", "f", "f">>),
       ExtGlob(<<"w", "o", "f", "f", "2">>),
       ExtGlob(<<"t", "t", "f">>) >>

\* the hashed-name globs: "**/*.[a-fA-F0-9]*.js", "**/*.[a-fA-F0-9]*.css",
\* "**/*-*.*.js", "**/*-*.*.css"
HashedNameGlobs ==
    << <<"*", "*", "/", "*", ".", "[a-fA-F0-9]", "*", ".", "j", "s">>,
       <<"*", "*", "/", "*", ".", "[a-fA-F0-9]", "*", ".", "c", "s", "s">>,
       <<"*", "*", "/", "*", "-", "*", ".", "*", ".", "j", "s">>,
       <<"*", "*", "/", "*", "-", "*", ".", "*", ".", "c", "s", "s">> >>

Passes == {"DeployHtml", "DeployUnhashedApp", "DeployHashed"}

\* include: ["index.html", "**/*.html"], ["**/*.js", "**/*.css"], and
\* [...hashedDirs, hashed names, images and fonts, "**/*.map"]
include(pass, hd) ==
    CASE pass = "DeployHtml" ->
           << <<"i", "n", "d", "e", "x", ".", "h", "t", "m", "l">>,
              ExtGlob(<<"h", "t", "m", "l">>) >>
      [] pass = "DeployUnhashedApp" ->
           << ExtGlob(<<"j", "s">>), ExtGlob(<<"c", "s", "s">>) >>
      [] pass = "DeployHashed" ->
           hd \o HashedNameGlobs \o StaticGlobs \o << ExtGlob(<<"m", "a", "p">>) >>

\* Cache-Control of the objects a pass uploads
cacheControl(pass) ==
    CASE pass = "DeployHtml" -> "public, max-age=0, must-revalidate"
      [] pass = "DeployUnhashedApp" -> "public, max-age=30, must-revalidate"
      [] pass = "DeployHashed" -> "public, max-age=31536000, immutable"

\* a variant whose unhashed pass does not exclude the hashed directories
excludeWithoutHashedDirs(pass, hd) ==
    CASE pass = "DeployHtml" ->
           << ExtGlob(<<"j", "s">>), ExtGlob(<<"c", "s", "s">>),
              ExtGlob(<<"m", "a", "p">>) >> \o StaticGlobs \o hd
      [] pass = "DeployUnhashedApp" ->
           << ExtGlob(<<"m", "a", "p">>) >> \o HashedNameGlobs
      [] pass = "DeployHashed" -> <<>>

\* exclude: ["**/*.js", "**/*.css", "**/*.map", images and fonts,
\* ...hashedDirs], ["**/*.map", ...hashedDirs, hashed names], and none
exclude(pass, hd) ==
    CASE pass = "DeployHtml" ->
           << ExtGlob(<<"j", "s">>), ExtGlob(<<"c", "s", "s">>),
              ExtGlob(<<"m", "a", "p">>) >> \o StaticGlobs \o hd
      [] pass = "DeployUnhashedApp" ->
           << ExtGlob(<<"m", "a", "p">>) >> \o hd \o HashedNameGlobs
      [] pass = "DeployHashed" -> <<>>

\* a file is in a pass when it matches one of the pass's include globs
\* and none of its exclude globs
inPass(pass, hd, f) ==
    matchesAny(include(pass, hd), f) /\ ~matchesAny(exclude(pass, hd), f)

\* the build output the passes are run on: directories, file stems and
\* extensions of a bundler's output, and three root files
FileDirs == { <<>>, <<"a", "s", "s", "e", "t", "s", "/">>,
              <<"j", "s", "/">> }
FileStems == { <<"a", "p", "p">>, <<"a", "p", "p", ".", "a", "1">>,
               <<"a", "p", "p", "-", "v", "1", ".", "m", "i", "n">> }
FileExts == { <<"h", "t", "m", "l">>, <<"j", "s">>, <<"c", "s", "s">>,
              <<"m", "a", "p">>, <<"t", "x", "t">> }
FilePool ==
    {d \o n \o <<".">> \o e : d \in FileDirs, n \in FileStems, e \in FileExts}
    \cup { <<"i", "n", "d", "e", "x", ".", "h", "t", "m", "l">>,
           <<"r", "o", "b", "o", "t", "s", ".", "t", "x", "t">>,
           <<"f", "a", "v", "i", "c", "o", "n", ".", "i", "c", "o">>,
           <<"i", "m", "g", "/", "l", "o", "g", "o", ".", "p", "n", "g">>,
           <<"s", "t", "a", "t", "i", "c", "/", "a", "p", "p", ".", "j", "s">> }

\* the files of each pass, for each value of hashedDirs
PassFiles ==
    [pass \in Passes, hd \in HashedDirsOptions |->
        {f \in FilePool : inPass(pass, hd, f)}]

(***************************************************************************)
(* The synthesis run: names and configuration.                             *)
(***************************************************************************)
\* fortunasBet of lib/constants, the prefix of every identifier
fortunasBet == <<"F", "o", "r", "t", "u", "n", "a", "s", "B", "e", "t">>

LowerOf ==
    ("A" :> "a") @@ ("B" :> "b") @@ ("C" :> "c") @@ ("D" :> "d") @@
    ("E" :> "e") @@ ("F" :> "f") @@ ("G" :> "g") @@ ("H" :> "h") @@
    ("I" :> "i") @@ ("J" :> "j") @@ ("K" :> "k") @@ ("L" :> "l") @@
    ("M" :> "m") @@ ("N" :> "n") @@ ("O" :> "o") @@ ("P" :> "p") @@
    ("Q" :> "q") @@ ("R" :> "r") @@ ("S" :> "s") @@ ("T" :> "t") @@
    ("U" :> "u") @@ ("V" :> "v") @@ ("W" :> "w") @@ ("X" :> "x") @@
    ("Y" :> "y") @@ ("Z" :> "z")

\* String.prototype.toLowerCase()
toLowerCase(s) ==
    [i \in 1..Len(s) |-> IF s[i] \in DOMAIN LowerOf THEN LowerOf[s[i]] ELSE s[i]]

\* a variant that constructs the ApiStack before the CognitoStack
KindsApiBeforeCognito == <<"DatabaseStack", "ApiStack", "CognitoStack",
                           "WebsiteStack", "ApiDnsStack">>

\* the stack kinds, in the order main constructs them, and their names
Kinds == <<"DatabaseStack", "CognitoStack", "WebsiteStack", "ApiStack",
           "ApiDnsStack">>

KindName ==
    [DatabaseStack |-> <<"D", "a", "t", "a", "b", "a", "s", "e", "S", "t", "a", "c", "k">>,
     CognitoStack |-> <<"C", "o", "g", "n", "i", "t", "o", "S", "t", "a", "c", "k">>,
     WebsiteStack |-> <<"W", "e", "b", "s", "i", "t", "e", "S", "t", "a", "c", "k">>,
     ApiStack |-> <<"A", "p", "i", "S", "t", "a", "c", "k">>,
     ApiDnsStack |-> <<"A", "p", "i", "D", "n", "s", "S", "t", "a", "c", "k">>]

\* a variant that leaves the stage out of the id
stackIdWithoutStage(kind, stage) == fortunasBet \o <<"-">> \o KindName[kind]

\* `${fortunasBet}-<Kind>-${stage}`
stackId(kind, stage) == fortunasBet \o <<"-">> \o KindName[kind] \o <<"-">> \o stage

\* the stage keys of the configuration objects: "prod", "Prod", "Testing",
\* "dev"
Stages ==
    { <<"p", "r", "o", "d">>, <<"P", "r", "o", "d">>,
      <<"T", "e", "s", "t", "i", "n", "g">>, <<"d", "e", "v">> }

\* the per-stage configurations: an apex site, a subdomain site with its API
\* one label below it, and a subdomain site in the apex zone with its API
\* beside it under the apex wildcard
Cfgs ==
    { [hostedZoneId |-> "Z0APEX",
       websiteDomainName |->
        <<"f", "o", "r", "t", "u", "n", "a", "s", "b", "e", "t", ".", "c",
          "o", "m">>,
       apiDomainName |->
        <<"a", "p", "i", ".", "f", "o", "r", "t", "u", "n", "a", "s", "b",
          "e", "t", ".", "c", "o", "m">>,
       callbackUrls |-> <<"https://fortunasbet.com/">>,
       wildcardCertificateArn |-> "arn:aws:acm:us-east-1:1:certificate/w1",
       apiWildcardCertificateArn |-> "arn:aws:acm:us-west-2:1:certificate/a1",
       escalationEmail |-> "ops@fortunasbet.com",
       escalationNumber |-> "+15550001"],
      [hostedZoneId |-> "Z1TEST",
       websiteDomainName |->
        <<"t", "e", "s", "t", "i", "n", "g", ".", "f", "o", "r", "t", "u",
          "n", "a", "s", "b", "e", "t", ".", "c", "o", "m">>,
       apiDomainName |->
        <<"a", "p", "i", ".", "t", "e", "s", "t", "i", "n", "g", ".", "f",
          "o", "r", "t", "u", "n", "a", "s", "b", "e", "t", ".", "c", "o",
          "m">>,
       callbackUrls |-> <<"https://testing.fortunasbet.com/",
                          "http://localhost:8080/">>,
       wildcardCertificateArn |-> "arn:aws:acm:us-east-1:2:certificate/w2",
       apiWildcardCertificateArn |-> "arn:aws:acm:us-west-2:2:certificate/a2",
       escalationEmail |-> "dev@fortunasbet.com",
       escalationNumber |-> "+15550002"],
      [hostedZoneId |-> "Z0APEX",
       websiteDomainName |->
        <<"t", "e", "s", "t", "i", "n", "g", ".", "f", "o", "r", "t", "u",
          "n", "a", "s", "b", "e", "t", ".", "c", "o", "m">>,
       apiDomainName |->
        <<"a", "p", "i", "-", "t", "e", "s", "t", "i", "n", "g", ".", "f",
          "o", "r", "t", "u", "n", "a", "s", "b", "e", "t", ".", "c", "o",
          "m">>,
       callbackUrls |-> <<"https://testing.fortunasbet.com/",
                          "http://localhost:8080/">>,
       wildcardCertificateArn |-> "arn:aws:acm:us-east-1:1:certificate/w1",
       apiWildcardCertificateArn |-> "arn:aws:acm:us-west-2:1:certificate/a1",
       escalationEmail |-> "dev@fortunasbet.com",
       escalationNumber |-> "+15550002"] }

\* the configuration objects of at most n stages: the stage keys of an
\* object are distinct and keep their order
RECURSIVE ConfigsUpTo(_)
ConfigsUpTo(n) ==
    IF n = 0 THEN {<<>>}
    ELSE LET smaller == ConfigsUpTo(n - 1)
         IN  smaller \cup
             {Append(o, [stage |-> s, config |-> c]) :
                 o \in smaller, s \in Stages, c \in Cfgs}

Configs ==
    {o \in ConfigsUpTo(MaxStages) :
        \A i, j \in 1..Len(o) : i # j => o[i].stage # o[j].stage}

\* two configuration objects that tell the two sources apart
SampleConfigs ==
    {o \in Configs : Len(o) = 1 /\ o[1].stage = <<"p", "r", "o", "d">>}

(***************************************************************************)
(* The environment.  A variable is undefined or holds a string; the text   *)
(* of a JSON document is a non-empty string that stands for the document   *)
(* it parses to, or for none when it is malformed.                         *)
(***************************************************************************)
Undefined == [defined |-> FALSE, value |-> <<>>]

Defined(s) == [defined |-> TRUE, value |-> s]

jsonText(o) == <<[wellFormed |-> TRUE, document |-> o]>>

malformedText == <<[wellFormed |-> FALSE, document |-> <<>>]>>

\* !!x of an environment variable: set and not the empty string
truthy(x) == x.defined /\ x.value # <<>>

\* the variables that mark an automated run
DetectionVars == {"CICD", "CODEBUILD_BUILD_ID", "CODEPIPELINE_EXECUTION_ID",
                  "CODEDEPLOY_DEPLOYMENT_ID", "USE_SECRETS_MANAGER"}

\* undefined, "", "false"
DetectionValues ==
    {Undefined, Defined(<<>>), Defined(<<"f", "a", "l", "s", "e">>)}

\* a variant that leaves USE_SECRETS_MANAGER out
isCICDWithoutSecretsManager(e) ==
    \/ truthy(e["CICD"])
    \/ truthy(e["CODEBUILD_BUILD_ID"])
    \/ truthy(e["CODEPIPELINE_EXECUTION_ID"])
    \/ truthy(e["CODEDEPLOY_DEPLOYMENT_ID"])

isCICD(e) ==
    \/ truthy(e["CICD"])
    \/ truthy(e["CODEBUILD_BUILD_ID"])
    \/ truthy(e["CODEPIPELINE_EXECUTION_ID"])
    \/ truthy(e["CODEDEPLOY_DEPLOYMENT_ID"])
    \/ truthy(e["USE_SECRETS_MANAGER"])

(***************************************************************************)
(* The stack constructors.  A stack is a record of its id, kind and stage, *)
(* the outputs of other stacks it was given (refs: the stack object, by    *)
(* its position in the app, and the output read from it), and the          *)
(* resources it defines, with the props each was created with.             *)
(***************************************************************************)
\* a variant that names the access-logs bucket after the site's domain
loggingBucketNameByDomain(props) ==
    toLowerCase(fortunasBet) \o <<"-", "a", "c", "c", "e", "s", "s", "l", "o", "g", "s", "b", "u",
          "c", "k", "e", "t", "-">>
        \o sanitize(props.domainName)

\* `${fortunasBet.toLowerCase()}-accesslogsbucket-${stage.toLowerCase()}`
loggingBucketName(props) ==
    toLowerCase(fortunasBet) \o <<"-", "a", "c", "c", "e", "s", "s", "l", "o", "g", "s", "b", "u",
          "c", "k", "e", "t", "-">>
        \o toLowerCase(props.stage)

\* `${fortunasBet.toLowerCase()}-website-bucket-${stage.toLowerCase()}`
siteBucketName(props) ==
    toLowerCase(fortunasBet) \o <<"-", "w", "e", "b", "s", "i", "t", "e", "-", "b", "u", "c", "k",
          "e", "t", "-">>
        \o toLowerCase(props.stage)

\* the props of the site bucket
siteBucketProps(props) ==
    [bucketName |-> siteBucketName(props),
     publicReadAccess |-> FALSE,
     blockPublicAccess |-> "BLOCK_ALL",
     removalPolicy |-> "DESTROY",
     autoDeleteObjects |-> TRUE,
     serverAccessLogsBucket |->
        fortunasBet \o <<"-", "A", "c", "c", "e", "s", "s", "L", "o", "g", "s", "B",
            "u", "c", "k", "e", "t", "-">> \o props.stage,
     serverAccessLogsPrefix |-> "s3-access/"]

\* the props of the access-logs bucket
loggingBucketProps(props) ==
    [bucketName |-> loggingBucketName(props),
     removalPolicy |-> "RETAIN",
     encryption |-> "S3_MANAGED",
     accessControl |-> "LOG_DELIVERY_WRITE"]

\* `${fortunasBet}-Distribution-${stage}`
distributionId(stage) ==
    fortunasBet \o <<"-", "D", "i", "s", "t", "r", "i", "b", "u", "t", "i", "o",
                     "n", "-">> \o stage

\* `${fortunasBet}-Alias-${sanitize(name)}-${stage}`
aliasId(name, stage) ==
    fortunasBet \o <<"-", "A", "l", "i", "a", "s", "-">> \o sanitize(name)
                \o <<"-">> \o stage

\* new route53.ARecord / AaaaRecord(this, id, { zone, recordName, target })
aliasRecord(id, type, props, name) ==
    [id |-> id, type |-> type, zone |-> props.hostedZoneId,
     recordName |-> name, target |-> distributionId(props.stage), ttl |-> 60]

\* a variant whose www records take their ids from domainName
aliasRecordsWwwFromBase(props) ==
    LET wwwDomain == <<"w", "w", "w", ".">> \o props.domainName
        baseId == aliasId(props.domainName, props.stage)
        wwwId == aliasId(props.domainName, props.stage)
    IN  << aliasRecord(baseId \o <<"-", "A">>, "A", props, props.domainName),
           aliasRecord(baseId \o <<"-", "A", "A", "A", "A">>, "AAAA", props,
                       props.domainName),
           aliasRecord(wwwId \o <<"-", "A">>, "A", props, wwwDomain),
           aliasRecord(wwwId \o <<"-", "A", "A", "A", "A">>, "AAAA", props,
                       wwwDomain) >>

\* the A and AAAA records for domainName and www.domainName, in the order
\* the constructor creates them
aliasRecords(props) ==
    LET wwwDomain == <<"w", "w", "w", ".">> \o props.domainName
        baseId == aliasId(props.domainName, props.stage)
        wwwId == aliasId(wwwDomain, props.stage)
    IN  << aliasRecord(baseId \o <<"-", "A">>, "A", props, props.domainName),
           aliasRecord(baseId \o <<"-", "A", "A", "A", "A">>, "AAAA", props,
                       props.domainName),
           aliasRecord(wwwId \o <<"-", "A">>, "A", props, wwwDomain),
           aliasRecord(wwwId \o <<"-", "A", "A", "A", "A">>, "AAAA", props,
                       wwwDomain) >>

\* `${fortunasBet}-AutoCert-${stage}`
certificateId(stage) ==
    fortunasBet \o <<"-", "A", "u", "t", "o", "C", "e", "r", "t", "-">> \o stage

\* a variant that leaves www.domainName to the wildcard
subjectAlternativeNamesWildcardOnly(domainName) ==
    << <<"*", ".">> \o domainName >>

\* subjectAlternativeNames: [wwwDomain, wildcardSub]
subjectAlternativeNames(domainName) ==
    << <<"w", "w", "w", ".">> \o domainName, <<"*", ".">> \o domainName >>

\* the tags a stack gets from its constructor: those of the props handed to
\* super(scope, id, props), which main never sets; no stack in src/ adds a tag
stackTags(props) ==
    IF "tags" \in DOMAIN props THEN props.tags ELSE {}

\* new WebsiteStack(scope, id, props)
WebsiteStack(id, props) ==
    [id |-> id, kind |-> "WebsiteStack", stage |-> props.stage,
     tags |-> stackTags(props), refs |-> {},
     outputs |-> {"siteBucket", "distribution"},
     resources |->
       [hostedZone |->
          [hostedZoneId |-> props.hostedZoneId,
           zoneName |-> getApexDomain(props.domainName)],
        certificate |->
          [id |-> certificateId(props.stage),
           domainName |-> props.domainName,
           subjectAlternativeNames |-> subjectAlternativeNames(props.domainName)],
        loggingBucket |->
          [id |-> fortunasBet \o <<"-", "A", "c", "c", "e", "s", "s", "L", "o", "g", "s", "B",
            "u", "c", "k", "e", "t", "-">> \o props.stage,
           props |-> loggingBucketProps(props)],
        siteBucket |->
          [id |-> fortunasBet \o <<"-", "W", "e", "b", "s", "i", "t", "e", "B", "u", "c", "k",
            "e", "t", "-">> \o props.stage,
           props |-> siteBucketProps(props)],
        distribution |->
          [id |-> distributionId(props.stage),
           certificate |-> certificateId(props.stage),
           domainNames |->
             << props.domainName, <<"w", "w", "w", ".">> \o props.domainName >>,
           comment |->
             <<"C", "l", "o", "u", "d", "F", "r", "o", "n", "t", " ", "D",
               "i", "s", "t", "r", "i", "b", "u", "t", "i", "o", "n", " ",
               "f", "o", "r", " ">>
               \o fortunasBet \o <<" ">> \o props.stage],
        aliasRecords |-> aliasRecords(props)]]

\* "https://fortunasbet.auth.us-west-2.amazoncognito.com"
ProdCognitoDomain == <<"h", "t", "t", "p", "s", ":", "/", "/", "f", "o", "r",
    "t", "u", "n", "a", "s", "b", "e", "t", ".", "a", "u", "t", "h", ".",
    "u", "s", "-", "w", "e", "s", "t", "-", "2", ".", "a", "m", "a", "z",
    "o", "n", "c", "o", "g", "n", "i", "t", "o", ".", "c", "o", "m">>

\* "https://fortunasbet-"
CognitoDomainPrefix == <<"h", "t", "t", "p", "s", ":", "/", "/", "f", "o",
    "r", "t", "u", "n", "a", "s", "b", "e", "t", "-">>

\* ".auth.us-west-2.amazoncognito.com"
CognitoDomainSuffix == <<".", "a", "u", "t", "h", ".", "u", "s", "-", "w",
    "e", "s", "t", "-", "2", ".", "a", "m", "a", "z", "o", "n", "c", "o",
    "g", "n", "i", "t", "o", ".", "c", "o", "m">>

\* a variant that compares the stage as it is written
cognitoDomainCaseSensitive(stage) ==
    IF stage = <<"p", "r", "o", "d">>
    THEN ProdCognitoDomain
    ELSE CognitoDomainPrefix \o toLowerCase(stage) \o CognitoDomainSuffix

\* environment.COGNITO_DOMAIN
cognitoDomain(stage) ==
    IF toLowerCase(stage) = <<"p", "r", "o", "d">>
    THEN ProdCognitoDomain
    ELSE CognitoDomainPrefix \o toLowerCase(stage) \o CognitoDomainSuffix

\* the environment of the API Lambda function
lambdaEnvironment(props) ==
    [TABLE_NAME |-> props.userTable,
     COGNITO_USER_POOL_ID |-> props.userPool,
     COGNITO_CLIENT_ID |-> props.userPoolClient,
     COGNITO_API_REDIRECT_URI |->
        <<"h", "t", "t", "p", "s", ":", "/", "/">> \o props.apiDomainName
            \o <<"/">>,
     COGNITO_REGION |-> "us-west-2",
     COGNITO_DOMAIN |-> cognitoDomain(props.stage),
     STAGE |-> toLowerCase(props.stage),
     API_DOMAIN_NAME |-> props.apiDomainName]

\* a variant whose root catch-all is added without authorization
apiMethodsOpenProxy(authorizer) ==
    << [path |-> "/docs", httpMethod |-> "GET", authorizationType |-> "NONE"],
       [path |-> "/docs/{proxy+}", httpMethod |-> "ANY",
        authorizationType |-> "NONE"],
       [path |-> "/openapi.json", httpMethod |-> "GET",
        authorizationType |-> "NONE"],
       [path |-> "/{proxy+}", httpMethod |-> "ANY",
        authorizationType |-> "NONE"] >>

\* the addMethod calls of ApiStack, in order, with the options of each
apiMethods(authorizer) ==
    << [path |-> "/docs", httpMethod |-> "GET", authorizationType |-> "NONE"],
       [path |-> "/docs/{proxy+}", httpMethod |-> "ANY",
        authorizationType |-> "NONE"],
       [path |-> "/openapi.json", httpMethod |-> "GET",
        authorizationType |-> "NONE"],
       [path |-> "/{proxy+}", httpMethod |-> "ANY",
        authorizationType |-> "COGNITO", authorizer |-> authorizer] >>

\* a variant that compares the stage as it is written
allowOriginsCaseSensitive(stage) ==
    IF stage = <<"p", "r", "o", "d">>
    THEN <<"https://fortunasbet.com">>
    ELSE IF stage = <<"t", "e", "s", "t", "i", "n", "g">>
    THEN <<"https://testing.fortunasbet.com", "http://localhost:8080">>
    ELSE <<"http://localhost:8080">>

\* defaultCorsPreflightOptions.allowOrigins
allowOrigins(stage) ==
    IF toLowerCase(stage) = <<"p", "r", "o", "d">>
    THEN <<"https://fortunasbet.com">>
    ELSE IF toLowerCase(stage) = <<"t", "e", "s", "t", "i", "n", "g">>
    THEN <<"https://testing.fortunasbet.com", "http://localhost:8080">>
    ELSE <<"http://localhost:8080">>

\* `${fortunasBet}-ApiAuthorizer-${stage}`
authorizerId(stage) ==
    fortunasBet \o <<"-", "A", "p", "i", "A", "u", "t", "h", "o", "r", "i",
                     "z", "e", "r", "-">> \o stage

\* new ApiStack(scope, id, props)
ApiStack(id, props) ==
    [id |-> id, kind |-> "ApiStack", stage |-> props.stage,
     tags |-> stackTags(props),
     refs |-> {props.userPool, props.userPoolClient, props.userTable},
     outputs |-> {"api", "identityPool"},
     resources |->
       [authorizer |->
          [id |-> authorizerId(props.stage),
           cognitoUserPools |-> <<props.userPool>>,
           identitySource |-> "method.request.header.Authorization"],
        defaultMethodOptions |->
          [authorizationType |-> "COGNITO",
           authorizer |-> authorizerId(props.stage)],
        defaultCorsPreflightOptions |->
          [allowOrigins |-> allowOrigins(props.stage),
           allowHeaders |-> <<"authorization", "content-type">>,
           allowCredentials |-> TRUE],
        methods |-> apiMethods(authorizerId(props.stage)),
        applicationLogsLogGroup |->
          [logGroupName |->
             <<"/", "a", "w", "s", "/", "l", "a", "m", "b", "d", "a", "/">>
               \o fortunasBet \o <<"-", "A", "p", "i", "L", "a", "m", "b", "d", "a", "-">> \o props.stage],
        fortunasBetApi |->
          [functionName |->
             fortunasBet \o <<"-", "A", "p", "i", "L", "a", "m", "b", "d", "a", "-">> \o props.stage,
           environment |-> lambdaEnvironment(props)],
        accessLogGroup |->
          [logGroupName |->
             <<"/", "a", "w", "s", "/", "a", "p", "i", "g", "a", "t", "e",
               "w", "a", "y", "/">>
               \o fortunasBet \o <<"-", "S", "e", "r", "v", "i", "c", "e", "L", "o", "g", "s",
               "-">> \o props.stage],
        api |->
          [restApiName |-> fortunasBet \o <<"-", "A", "p", "i", "-">> \o props.stage]]]

\* new ApiDnsStack(scope, id, props)
ApiDnsStack(id, props) ==
    [id |-> id, kind |-> "ApiDnsStack", stage |-> props.stage,
     tags |-> stackTags(props),
     refs |-> {props.api},
     outputs |-> {},
     resources |->
       [hostedZone |->
          [hostedZoneId |-> props.hostedZoneId, zoneName |-> props.rootDomainName],
        customDomain |->
          [domainName |-> props.apiDomainName,
           certificateArn |-> props.certificateArn],
        aliasRecord |-> [recordName |-> <<"a", "p", "i">>]]]

\* new DatabaseStack(scope, id, props): its table is read by main
DatabaseStack(id, props) ==
    [id |-> id, kind |-> "DatabaseStack", stage |-> props.stage,
     tags |-> stackTags(props), refs |-> {},
     outputs |-> {"table"},
     resources |-> [table |-> [stage |-> props.stage]]]

\* new CognitoStack(scope, id, props): its userPool and userPoolClient are
\* read by main
CognitoStack(id, props) ==
    [id |-> id, kind |-> "CognitoStack", stage |-> props.stage,
     tags |-> stackTags(props),
     refs |-> {props.userTable},
     outputs |-> {"userPool", "userPoolClient"},
     resources |->
       [userPool |-> [callbackUrls |-> props.callbackUrls],
        userPoolClient |-> [callbackUrls |-> props.callbackUrls]]]

\* process.env before any run: no detection variable, no configuration
EmptyEnv == [v \in DetectionVars \cup {"CDK_ENV_CONFIG"} |-> Undefined]

NoLocals == [databaseStack |-> 0, cognitoStack |-> 0, api |-> 0]

\* main has not started
MainIdle ==
    /\ env = EmptyEnv
    /\ file = [exists |-> FALSE, content |-> <<>>]
    /\ pc = "idle"
    /\ stacks = <<>>
    /\ envConfig = <<>>
    /\ configSource = "none"
    /\ fileRead = FALSE
    /\ err = "none"
    /\ idx = 1
    /\ local = NoLocals

(***************************************************************************)
(* The helpers applied to an argument.                                     *)
(***************************************************************************)
\* no helper is called
HelpersIdle ==
    /\ fn = "none"
    /\ arg = <<>>
    /\ ret = <<>>

\* no pass is defined
DeployIdle ==
    /\ hashedDirs = DefaultHashedDirs
    /\ tree = {}
    /\ matched = [pass \in Passes |-> {}]
    /\ dpc = "idle"

InitHelpers ==
    /\ fn = "none"
    /\ arg \in StringsUpTo(HostChars, MaxLen)
    /\ ret = <<>>
    /\ DeployIdle
    /\ MainIdle

CallGetApexDomain ==
    /\ fn = "none"
    /\ fn' = "getApexDomain"
    /\ ret' = getApexDomain(arg)
    /\ UNCHANGED <<arg, deployVars, mainVars>>

CallSanitize ==
    /\ fn = "none"
    /\ fn' = "sanitize"
    /\ ret' = sanitize(arg)
    /\ UNCHANGED <<arg, deployVars, mainVars>>

\* new WebsiteStack(scope, id, props) for the domain name and a stage
CallWebsiteStack ==
    /\ fn = "none"
    /\ fn' = "WebsiteStack"
    /\ \E stage \in Stages :
          ret' = WebsiteStack(stackId("WebsiteStack", stage),
                     [domainName |-> arg, hostedZoneId |-> "Z0APEX",
                      stage |-> stage])
    /\ UNCHANGED <<arg, deployVars, mainVars>>

NextHelpers == CallGetApexDomain \/ CallSanitize \/ CallWebsiteStack

SpecHelpers == InitHelpers /\ [][NextHelpers]_vars

(***************************************************************************)
(* The upload passes defined on a build output, in the constructor's       *)
(* order.                                                                  *)
(***************************************************************************)
\* the build outputs of at most n files
RECURSIVE TreesUpTo(_)
TreesUpTo(n) ==
    IF n = 0 THEN {{}}
    ELSE LET smaller == TreesUpTo(n - 1)
         IN  smaller \cup {t \cup {f} : t \in smaller, f \in FilePool}

Trees == TreesUpTo(MaxFiles)

InitDeploy ==
    /\ HelpersIdle
    /\ hashedDirs \in HashedDirsOptions
    /\ tree \in Trees
    /\ matched = [pass \in Passes |-> {}]
    /\ dpc = "DeployHtml"
    /\ MainIdle

\* new s3deploy.BucketDeployment(this, <pass>, { include, exclude })
BucketDeployment(pass, next) ==
    /\ dpc = pass
    /\ matched' = [matched EXCEPT ![pass] = tree \cap PassFiles[pass, hashedDirs]]
    /\ dpc' = next
    /\ UNCHANGED <<hashedDirs, tree, helperVars, mainVars>>

DeployHtml == BucketDeployment("DeployHtml", "DeployUnhashedApp")

DeployUnhashedApp == BucketDeployment("DeployUnhashedApp", "DeployHashed")

DeployHashed == BucketDeployment("DeployHashed", "done")

NextDeploy == DeployHtml \/ DeployUnhashedApp \/ DeployHashed

SpecDeploy == InitDeploy /\ [][NextDeploy]_vars

(***************************************************************************)
(* The synthesis run: getEnvConfig and main.                               *)
(***************************************************************************)
\* JSON.parse(text) succeeds
parses(text) == text # <<>> /\ text[1].wellFormed

\* JSON.parse(text)
parse(text) == text[1].document

\* a variant that tests only for undefined
notSetOnlyUndefined(x) == ~x.defined

\* !process.env.CDK_ENV_CONFIG
notSet(x) == ~truthy(x)

\* the values of CDK_ENV_CONFIG and the states of the local file in the
\* runs that go through every setting of the detection variables
SampleEnvValues ==
    {Undefined, Defined(<<>>), Defined(malformedText)}
        \cup {Defined(jsonText(o)) : o \in SampleConfigs}

SampleFiles ==
    {[exists |-> FALSE, content |-> <<>>],
     [exists |-> TRUE, content |-> malformedText]}
        \cup {[exists |-> TRUE, content |-> jsonText(o)] : o \in SampleConfigs}

\* every setting of the detection variables, with the sample configurations
InputsByDetection ==
    {<<d @@ ("CDK_ENV_CONFIG" :> c), f>> :
        d \in [DetectionVars -> DetectionValues],
        c \in SampleEnvValues, f \in SampleFiles}

\* every configuration object, in an automated run (CICD=false, a non-empty
\* string) and in a local run
InputsByConfig ==
    {<<[EmptyEnv EXCEPT !["CICD"] = Defined(<<"f", "a", "l", "s", "e">>),
                        !["CDK_ENV_CONFIG"] = Defined(jsonText(o))], f>> :
        o \in Configs, f \in SampleFiles}
    \cup
    {<<[EmptyEnv EXCEPT !["CDK_ENV_CONFIG"] = c],
       [exists |-> TRUE, content |-> jsonText(o)]>> :
        o \in Configs, c \in SampleEnvValues}

Init ==
    /\ HelpersIdle
    /\ DeployIdle
    /\ \E in \in InputsByDetection \cup InputsByConfig :
          /\ env = in[1]
          /\ file = in[2]
    /\ pc = "main"
    /\ stacks = <<>>
    /\ envConfig = <<>>
    /\ configSource = "none"
    /\ fileRead = FALSE
    /\ err = "none"
    /\ idx = 1
    /\ local = NoLocals

\* const app = new cdk.App(); const awsEnv = ...; then getEnvConfig is called
MainStart ==
    /\ pc = "main"
    /\ pc' = "getEnvConfig"
    /\ UNCHANGED <<env, file, stacks, envConfig, configSource, fileRead, err,
                   idx, local, helperVars, deployVars>>

\* getEnvConfig in an automated run without CDK_ENV_CONFIG: throws
GetEnvConfigNotSet ==
    /\ pc = "getEnvConfig"
    /\ isCICD(env)
    /\ notSet(env["CDK_ENV_CONFIG"])
    /\ err' = "CDK_ENV_CONFIG environment variable not set in CI/CD environment"
    /\ pc' = "rejected"
    /\ UNCHANGED <<env, file, stacks, envConfig, configSource, fileRead, idx,
                   local, helperVars, deployVars>>

\* getEnvConfig in an automated run: JSON.parse(process.env.CDK_ENV_CONFIG)
GetEnvConfigFromEnv ==
    /\ pc = "getEnvConfig"
    /\ isCICD(env)
    /\ ~notSet(env["CDK_ENV_CONFIG"])
    /\ IF parses(env["CDK_ENV_CONFIG"].value)
       THEN /\ envConfig' = parse(env["CDK_ENV_CONFIG"].value)
            /\ configSource' = "CDK_ENV_CONFIG"
            /\ pc' = "for"
            /\ err' = err
       ELSE /\ err' = "SyntaxError"
            /\ pc' = "rejected"
            /\ UNCHANGED <<envConfig, configSource>>
    /\ UNCHANGED <<env, file, stacks, fileRead, idx, local, helperVars,
                   deployVars>>

\* getEnvConfig in a local run: fs.readFileSync of cdk.env.json, JSON.parse
GetEnvConfigFromFile ==
    /\ pc = "getEnvConfig"
    /\ ~isCICD(env)
    /\ fileRead' = TRUE
    /\ IF file.exists /\ parses(file.content)
       THEN /\ envConfig' = parse(file.content)
            /\ configSource' = "cdk.env.json"
            /\ pc' = "for"
            /\ err' = err
       ELSE /\ err' = IF file.exists THEN "SyntaxError" ELSE "ENOENT"
            /\ pc' = "rejected"
            /\ UNCHANGED <<envConfig, configSource>>
    /\ UNCHANGED <<env, file, stacks, idx, local, helperVars, deployVars>>

\* for (const stage of Object.keys(envConfig)): the next stage, whose body
\* declares databaseStack, cognitoStack and api anew
ForStage ==
    /\ pc = "for"
    /\ idx <= Len(envConfig)
    /\ local' = NoLocals
    /\ pc' = Kinds[1]
    /\ UNCHANGED <<env, file, stacks, envConfig, configSource, fileRead, err,
                   idx, helperVars, deployVars>>

\* the loop is over: main returns
MainDone ==
    /\ pc = "for"
    /\ idx > Len(envConfig)
    /\ pc' = "done"
    /\ UNCHANGED <<env, file, stacks, envConfig, configSource, fileRead, err,
                   idx, local, helperVars, deployVars>>

\* <stack>.<output> of a stack declared in the loop body
output(stack, name) == [stack |-> stack, output |-> name]

\* the constructor call of main for a kind of stack
newStack(kind, stage, config, loc) ==
    CASE kind = "DatabaseStack" ->
           DatabaseStack(stackId(kind, stage), [stage |-> stage])
      [] kind = "CognitoStack" ->
           CognitoStack(stackId(kind, stage),
              [stage |-> stage,
               callbackUrls |-> config.callbackUrls,
               userTable |-> output(loc.databaseStack, "table"),
               escalationEmail |-> config.escalationEmail,
               escalationNumber |-> config.escalationNumber])
      [] kind = "WebsiteStack" ->
           WebsiteStack(stackId(kind, stage),
              [domainName |-> config.websiteDomainName,
               hostedZoneId |-> config.hostedZoneId,
               stage |-> stage])
      [] kind = "ApiStack" ->
           ApiStack(stackId(kind, stage),
              [apiDomainName |-> config.apiDomainName,
               stage |-> stage,
               userPool |-> output(loc.cognitoStack, "userPool"),
               userPoolClient |-> output(loc.cognitoStack, "userPoolClient"),
               userTable |-> output(loc.databaseStack, "table"),
               escalationEmail |-> config.escalationEmail,
               escalationNumber |-> config.escalationNumber])
      [] kind = "ApiDnsStack" ->
           ApiDnsStack(stackId(kind, stage),
              [stage |-> stage,
               rootDomainName |-> config.websiteDomainName,
               apiDomainName |-> config.apiDomainName,
               hostedZoneId |-> config.hostedZoneId,
               api |-> output(loc.api, "api"),
               certificateArn |-> config.apiWildcardCertificateArn])

\* the declaration a constructed stack is bound to
bind(kind, loc, position) ==
    CASE kind = "DatabaseStack" -> [loc EXCEPT !.databaseStack = position]
      [] kind = "CognitoStack" -> [loc EXCEPT !.cognitoStack = position]
      [] kind = "ApiStack" -> [loc EXCEPT !.api = position]
      [] OTHER -> loc

\* one constructor call of the loop body, then the next statement
Construct(kind) ==
    /\ pc = kind
    /\ stacks' = Append(stacks,
          newStack(kind, envConfig[idx].stage, envConfig[idx].config, local))
    /\ local' = bind(kind, local, Len(stacks) + 1)
    /\ LET k == CHOOSE i \in 1..Len(Kinds) : Kinds[i] = kind
       IN  IF k < Len(Kinds)
           THEN pc' = Kinds[k + 1] /\ idx' = idx
           ELSE pc' = "for" /\ idx' = idx + 1
    /\ UNCHANGED <<env, file, envConfig, configSource, fileRead, err,
                   helperVars, deployVars>>

NewDatabaseStack == Construct("DatabaseStack")

NewCognitoStack == Construct("CognitoStack")

NewWebsiteStack == Construct("WebsiteStack")

NewApiStack == Construct("ApiStack")

NewApiDnsStack == Construct("ApiDnsStack")

Next ==
    \/ MainStart
    \/ GetEnvConfigNotSet
    \/ GetEnvConfigFromEnv
    \/ GetEnvConfigFromFile
    \/ ForStage
    \/ MainDone
    \/ NewDatabaseStack
    \/ NewCognitoStack
    \/ NewWebsiteStack
    \/ NewApiStack
    \/ NewApiDnsStack

Spec == Init /\ [][Next]_vars

(***************************************************************************)
(* Claims about the helpers.                                               *)
(***************************************************************************)

\* C1: for a host of two or more dot-separated labels, getApexDomain returns
\* exactly the last two labels joined by one dot: the part of the host after
\* its second-last dot, the whole host when it has a single dot.
C1_ApexIsLastTwoLabels ==
    (fn = "getApexDomain" /\ DotPositions(arg) # {}) =>
        LET last  == Max(DotPositions(arg))
            rest  == DotPositions(arg) \ {last}
            start == IF rest = {} THEN 1 ELSE Max(rest) + 1
        IN  /\ ret = SubSeq(arg, start, Len(arg))
            /\ Cardinality(DotPositions(ret)) = 1

\* a host of three or more labels has been reduced to a proper suffix
C1_Witness ==
    /\ fn = "getApexDomain"
    /\ Cardinality(DotPositions(arg)) >= 2
    /\ ret # arg
    /\ Len(ret) > 1

\* C2: getApexDomain returns a host of at most two labels unchanged, and
\* applying it to its own result changes nothing.
C2_ApexFixedPoint ==
    fn = "getApexDomain" =>
        /\ (Cardinality(DotPositions(arg)) <= 1 => ret = arg)
        /\ getApexDomain(ret) = ret

\* a two-label host came back unchanged
C2_Witness ==
    /\ fn = "getApexDomain"
    /\ Cardinality(DotPositions(arg)) = 1
    /\ Len(arg) >= 3
    /\ ret = arg

\* C3: sanitize keeps the length, puts '-' where the input has '.', keeps
\* every other character, and leaves no '.'.
C3_SanitizePointwise ==
    fn = "sanitize" =>
        /\ Len(ret) = Len(arg)
        /\ \A i \in 1..Len(arg) :
              /\ (arg[i] = "." => ret[i] = "-")
              /\ (arg[i] # "." => ret[i] = arg[i])
        /\ DotPositions(ret) = {}

\* a string with two dots and another character was sanitized
C3_Witness ==
    /\ fn = "sanitize"
    /\ Cardinality(DotPositions(arg)) >= 2
    /\ \E i \in 1..Len(arg) : arg[i] = "a"
    /\ ret # arg

\* C4: sanitize is the identity on a string without dots, and applying it to
\* its own result changes nothing.
C4_SanitizeFixedPoint ==
    fn = "sanitize" =>
        /\ (DotPositions(arg) = {} => ret = arg)
        /\ sanitize(ret) = ret

\* a non-empty string without dots came back unchanged
C4_Witness ==
    /\ fn = "sanitize"
    /\ DotPositions(arg) = {}
    /\ Len(arg) >= 2
    /\ ret = arg

(***************************************************************************)
(* Claims about the upload passes.                                         *)
(***************************************************************************)

\* C17: a WebsiteStack creates, for domainName and for www.domainName, one A
\* and one AAAA alias record each, all four in the imported hosted zone and
\* all four with the stack's own distribution as target, and the construct
\* ids of the four differ, whatever domainName is.
C17_AliasRecords ==
    fn = "WebsiteStack" =>
        LET recs == ret.resources.aliasRecords
            www == <<"w", "w", "w", ".">> \o arg
        IN  /\ Len(recs) = 4
            /\ \A name \in {arg, www} : \A type \in {"A", "AAAA"} :
                  Cardinality({i \in 1..Len(recs) :
                      recs[i].recordName = name /\ recs[i].type = type}) = 1
            /\ \A i \in 1..Len(recs) :
                  /\ recs[i].zone = ret.resources.hostedZone.hostedZoneId
                  /\ recs[i].target = ret.resources.distribution.id
            /\ \A i, j \in 1..Len(recs) : i # j => recs[i].id # recs[j].id

\* a WebsiteStack was constructed for a domain name with a dot and a dash
C17_Witness ==
    /\ fn = "WebsiteStack"
    /\ arg = <<"a", "-", "b", ".", "a">>
    /\ Len(ret.resources.aliasRecords) = 4
    /\ ret.resources.aliasRecords[3].id # ret.resources.aliasRecords[1].id

\* C21: every alias of a WebsiteStack's distribution, domainName and
\* www.domainName, is a name of the certificate minted in the same stack and
\* attached to the distribution: the certificate's domain name or one of
\* its subject alternative names www.domainName and *.domainName, whatever
\* domainName is.
C21_AliasesCoveredByCertificate ==
    fn = "WebsiteStack" =>
        LET cert == ret.resources.certificate
            dist == ret.resources.distribution
            sans == cert.subjectAlternativeNames
            certNames == {cert.domainName} \cup {sans[k] : k \in 1..Len(sans)}
        IN  /\ dist.certificate = cert.id
            /\ dist.domainNames = <<arg, <<"w", "w", "w", ".">> \o arg>>
            /\ cert.domainName = arg
            /\ {sans[k] : k \in 1..Len(sans)} =
                  {<<"w", "w", "w", ".">> \o arg, <<"*", ".">> \o arg}
            /\ \A k \in 1..Len(dist.domainNames) : dist.domainNames[k] \in certNames

\* a WebsiteStack was constructed for a subdomain, with its two aliases
C21_Witness ==
    /\ fn = "WebsiteStack"
    /\ arg = <<"a", ".", "b", ".", "a">>
    /\ Len(ret.resources.distribution.domainNames) = 2
    /\ ret.resources.distribution.domainNames[2] =
          ret.resources.certificate.subjectAlternativeNames[1]

\* C5: once the three passes are defined, every file of the build output
\* is in exactly one of them: none is left out and none is in two.
C5_PassesPartition ==
    dpc = "done" =>
        \A f \in tree : Cardinality({pass \in Passes : f \in matched[pass]}) = 1

UriChars == {"/", "a", "."}

\* a property of a request that may be missing
Missing == [defined |-> FALSE, value |-> <<>>]
Present(s) == [defined |-> TRUE, value |-> s]

\* the viewer requests: methods, URIs (missing, empty or a string) and a
\* query string the function never reads
Methods == {"GET", "HEAD", "POST", "get"}
Requests ==
    [method : Methods,
     uri : {Missing} \cup {Present(s) : s \in StringsUpTo(UriChars, MaxLen)},
     querystring : {"", "q=1"}]

\* event.request, or no request at all
NoRequest ==
    [defined |-> FALSE,
     request |-> [method |-> "GET", uri |-> Missing, querystring |-> ""]]
Events == {NoRequest} \cup {[defined |-> TRUE, request |-> r] : r \in Requests}

\* String.prototype.includes(c), c one character
includes(s, c) == \E i \in 1..Len(s) : s[i] = c

\* a variant that rewrites whatever the method is
handlerAnyMethod(event) ==
    LET req == event.request
    IN  IF event.defined
        THEN LET uri == IF req.uri.defined /\ req.uri.value # <<>>
                        THEN req.uri.value ELSE <<"/">>
             IN  IF ~includes(uri, ".")
                 THEN [event EXCEPT !.request.uri =
                         Present(<<"/", "i", "n", "d", "e", "x", ".", "h",
                                   "t", "m", "l">>)]
                 ELSE event
        ELSE event

\* function handler(event): the request it returns
handler(event) ==
    LET req == event.request
    IN  IF event.defined /\ req.method = "GET"
        THEN LET uri == IF req.uri.defined /\ req.uri.value # <<>>
                        THEN req.uri.value ELSE <<"/">>
             IN  IF ~includes(uri, ".")
                 THEN [event EXCEPT !.request.uri =
                         Present(<<"/", "i", "n", "d", "e", "x", ".", "h",
                                   "t", "m", "l">>)]
                 ELSE event
        ELSE event

InitSpa ==
    /\ fn = "none"
    /\ arg \in Events
    /\ ret = NoRequest
    /\ DeployIdle
    /\ MainIdle

\* CloudFront calls the function on a viewer request
CallHandler ==
    /\ fn = "none"
    /\ fn' = "handler"
    /\ ret' = handler(arg)
    /\ UNCHANGED <<arg, deployVars, mainVars>>

NextSpa == CallHandler

SpecSpa == InitSpa /\ [][NextSpa]_vars

\* C16: the function changes a request only when its method is GET and its
\* URI, an empty or missing one read as "/", has no '.': then the URI
\* becomes "/index.html"; otherwise the URI stays as it was; and no other
\* field of the request changes in either case.
C16_SpaRewrite ==
    fn = "handler" =>
        LET req == arg.request
            out == ret.request
            noDot == \A i \in 1..Len(req.uri.value) : req.uri.value[i] # "."
        IN  /\ ret.defined = arg.defined
            /\ out.method = req.method
            /\ out.querystring = req.querystring
            /\ IF arg.defined /\ req.method = "GET" /\ noDot
               THEN out.uri = Present(<<"/", "i", "n", "d", "e", "x", ".", "h",
                                        "t", "m", "l">>)
               ELSE out.uri = req.uri

\* the function has rewritten a GET for a route
C16_Witness ==
    /\ fn = "handler"
    /\ arg.defined
    /\ arg.request.method = "GET"
    /\ arg.request.uri = Present(<<"/", "a", "/", "a">>)
    /\ ret.request.uri.value # arg.request.uri.value

(***************************************************************************)
(* Claims about the synthesis run.                                         *)
(***************************************************************************)
\* some detection variable is set to a non-empty value
Automated == \E v \in DetectionVars : env[v].defined /\ Len(env[v].value) > 0

\* getEnvConfig has returned or thrown
Configured == pc \notin {"main", "getEnvConfig"}

\* C6: in an automated run with CDK_ENV_CONFIG unset or empty, getEnvConfig
\* fails with "CDK_ENV_CONFIG environment variable not set in CI/CD
\* environment" and main is rejected with no stack in the app.
C6_MissingConfigAborts ==
    (/\ Configured
     /\ Automated
     /\ (~env["CDK_ENV_CONFIG"].defined \/ env["CDK_ENV_CONFIG"].value = <<>>))
    => /\ pc = "rejected"
       /\ err = "CDK_ENV_CONFIG environment variable not set in CI/CD environment"
       /\ stacks = <<>>
       /\ envConfig = <<>>

\* an automated run with CDK_ENV_CONFIG set to the empty string was rejected
C6_Witness ==
    /\ pc = "rejected"
    /\ Automated
    /\ env["CDK_ENV_CONFIG"].defined
    /\ env["CDK_ENV_CONFIG"].value = <<>>
    /\ err = "CDK_ENV_CONFIG environment variable not set in CI/CD environment"

\* C7: the run is automated exactly when a detection variable is set to a
\* non-empty value; an automated run never reads the local file and takes
\* its configuration from CDK_ENV_CONFIG alone, any other run reads the
\* local file and takes its configuration from it alone, whatever
\* CDK_ENV_CONFIG holds.
C7_ConfigSource ==
    Configured =>
        IF Automated
        THEN /\ ~fileRead
             /\ configSource \in {"none", "CDK_ENV_CONFIG"}
             /\ (configSource = "none") = (pc = "rejected")
             /\ configSource = "CDK_ENV_CONFIG" =>
                   envConfig = env["CDK_ENV_CONFIG"].value[1].document
        ELSE /\ fileRead
             /\ configSource \in {"none", "cdk.env.json"}
             /\ (configSource = "none") = (pc = "rejected")
             /\ configSource = "cdk.env.json" =>
                   envConfig = file.content[1].document

\* a local run took the file's configuration although CDK_ENV_CONFIG held
\* another one, with a detection variable set to the empty string
C7_Witness ==
    /\ pc = "for"
    /\ ~Automated
    /\ env["USE_SECRETS_MANAGER"] = Defined(<<>>)
    /\ truthy(env["CDK_ENV_CONFIG"])
    /\ parses(env["CDK_ENV_CONFIG"].value)
    /\ parse(env["CDK_ENV_CONFIG"].value) # envConfig
    /\ envConfig = parse(file.content)
    /\ configSource = "cdk.env.json"

\* the identifiers of a stack: its id, and the names of its buckets, of its
\* function, of its log groups and of its REST API, and the comment of its
\* distribution
identifiers(s) ==
    CASE s.kind = "WebsiteStack" ->
           <<s.id, s.resources.loggingBucket.props.bucketName,
             s.resources.siteBucket.props.bucketName,
             s.resources.distribution.comment>>
      [] s.kind = "ApiStack" ->
           <<s.id, s.resources.fortunasBetApi.functionName,
             s.resources.applicationLogsLogGroup.logGroupName,
             s.resources.accessLogGroup.logGroupName,
             s.resources.api.restApiName>>
      [] OTHER -> <<s.id>>

\* C8: the identifiers of every stack are those main gives the stack of the
\* same kind and stage under any other configuration of the stage.
C8_IdentifiersIgnoreConfig ==
    \A i \in 1..Len(stacks) : \A c \in Cfgs :
        identifiers(stacks[i]) =
            identifiers(newStack(stacks[i].kind, stacks[i].stage, c, local))

\* the stacks of a stage were built for the subdomain site, and another
\* configuration of the stage has other domain names
C8_Witness ==
    /\ pc = "done"
    /\ \E i, j \in 1..Len(stacks) :
          /\ stacks[i].kind = "WebsiteStack"
          /\ stacks[j].kind = "ApiStack"
          /\ stacks[i].stage = stacks[j].stage
          /\ Len(stacks[i].resources.certificate.domainName) = 23
          /\ \E c \in Cfgs :
                c.websiteDomainName # stacks[i].resources.certificate.domainName

\* C9: every output a stack receives is one of a stack constructed before
\* it, of the same stage: a CognitoStack receives the table of the
\* DatabaseStack, an ApiStack the user pool and client of the CognitoStack
\* and the table of the DatabaseStack, an ApiDnsStack the api of the ApiStack.
C9_ReferencesConstructedBefore ==
    \A i \in 1..Len(stacks) :
        LET s == stacks[i]
            from(kind) == {r \in s.refs : r.stack \in 1..(i - 1)
                                          /\ stacks[r.stack].kind = kind}
        IN  /\ \A r \in s.refs :
                  /\ r.stack \in 1..(i - 1)
                  /\ stacks[r.stack].stage = s.stage
                  /\ r.output \in stacks[r.stack].outputs
            /\ s.kind = "CognitoStack" =>
                  {r.output : r \in from("DatabaseStack")} = {"table"}
            /\ s.kind = "ApiStack" =>
                  /\ {r.output : r \in from("DatabaseStack")} = {"table"}
                  /\ {r.output : r \in from("CognitoStack")} =
                        {"userPool", "userPoolClient"}
            /\ s.kind = "ApiDnsStack" =>
                  {r.output : r \in from("ApiStack")} = {"api"}

\* the stacks of two stages were constructed, the second stage's after the
\* first's
C9_Witness ==
    /\ pc = "done"
    /\ Len(stacks) >= 10
    /\ stacks[10].kind = "ApiDnsStack"
    /\ stacks[10].stage # stacks[5].stage
    /\ stacks[10].refs = {output(9, "api")}

\* a bucket's props block public access: no public read (the default when
\* publicReadAccess is left out) and blockPublicAccess BLOCK_ALL
publicAccessBlocked(props) ==
    /\ ("publicReadAccess" \in DOMAIN props => props.publicReadAccess = FALSE)
    /\ "blockPublicAccess" \in DOMAIN props
    /\ props.blockPublicAccess = "BLOCK_ALL"

\* C10: both buckets of every WebsiteStack, the website bucket and the
\* access-logs bucket, are created with public access blocked.
C10_BucketsBlockPublicAccess ==
    \A i \in 1..Len(stacks) :
        stacks[i].kind = "WebsiteStack" =>
            /\ publicAccessBlocked(stacks[i].resources.siteBucket.props)
            /\ publicAccessBlocked(stacks[i].resources.loggingBucket.props)

\* the ApiStacks of the app
ApiStacks == {i \in 1..Len(stacks) : stacks[i].kind = "ApiStack"}

\* C11: of the methods an ApiStack adds, exactly GET /docs, ANY
\* /docs/{proxy+} and GET /openapi.json have authorization type NONE; every
\* other method, ANY /{proxy+} among them, and the default method options
\* use the Cognito authorizer, whose user pool is the one of the
\* CognitoStack of the same stage.
C11_CognitoExceptDocs ==
    \A i \in ApiStacks :
        LET r  == stacks[i].resources
            ms == r.methods
            open == {k \in 1..Len(ms) : ms[k].authorizationType = "NONE"}
        IN  /\ {<<ms[k].httpMethod, ms[k].path>> : k \in open} =
                  {<<"GET", "/docs">>, <<"ANY", "/docs/{proxy+}">>,
                   <<"GET", "/openapi.json">>}
            /\ Cardinality(open) = 3
            /\ \E k \in 1..Len(ms) \ open :
                  ms[k].httpMethod = "ANY" /\ ms[k].path = "/{proxy+}"
            /\ \A k \in 1..Len(ms) \ open :
                  /\ ms[k].authorizationType = "COGNITO"
                  /\ ms[k].authorizer = r.authorizer.id
            /\ r.defaultMethodOptions.authorizationType = "COGNITO"
            /\ r.defaultMethodOptions.authorizer = r.authorizer.id
            /\ Len(r.authorizer.cognitoUserPools) = 1
            /\ LET pool == r.authorizer.cognitoUserPools[1]
               IN  /\ pool.output = "userPool"
                   /\ pool.stack \in 1..(i - 1)
                   /\ stacks[pool.stack].kind = "CognitoStack"
                   /\ stacks[pool.stack].stage = stacks[i].stage

\* the ApiStack of a second stage was constructed with its methods
C11_Witness ==
    /\ Len(stacks) >= 9
    /\ stacks[9].kind = "ApiStack"
    /\ Len(stacks[9].resources.methods) = 4
    /\ stacks[9].resources.authorizer.cognitoUserPools[1].stack = 7

\* the tags the README lists for a stack of a stage
readmeTags(stage) ==
    { <<"Environment", stage>>,
      <<"Project", <<"F", "o", "r", "t", "u", "n", "a", "s", "B", "e", "t",
                     "s">> >>,
      <<"ManagedBy", <<"C", "D", "K">> >> }

\* C12: once main has run, every stack it created carries the tags
\* Environment (the stack's stage), Project = FortunasBets and
\* ManagedBy = CDK.
C12_StacksTagged ==
    pc = "done" =>
        \A i \in 1..Len(stacks) : readmeTags(stacks[i].stage) \subseteq stacks[i].tags

\* the stage keys of the configuration main loops over
StageKeys == {envConfig[k].stage : k \in 1..Len(envConfig)}

C14_EmptyDone == pc = "done" /\ configSource # "none" /\ envConfig = <<>>

\* the configuration of the stage a stack was created for
configOf(stack) ==
    envConfig[CHOOSE k \in 1..Len(envConfig) :
                 envConfig[k].stage = stack.stage].config

\* the stacks that import the hosted zone of their stage
ZoneImporters ==
    {i \in 1..Len(stacks) : stacks[i].kind \in {"WebsiteStack", "ApiDnsStack"}}

\* C15: WebsiteStack and ApiDnsStack import the hosted zone of their stage,
\* the same hostedZoneId, under the apex domain as zone name: the last two
\* labels of the stage's website domain name, whether that is an apex or a
\* subdomain.
C15_ZonesBoundToApex ==
    \A i \in ZoneImporters :
        /\ stacks[i].resources.hostedZone.hostedZoneId =
              configOf(stacks[i]).hostedZoneId
        /\ stacks[i].resources.hostedZone.zoneName =
              getApexDomain(configOf(stacks[i]).websiteDomainName)

\* s is the lower-case word w, in whatever case s is written
sameWord(s, w) ==
    /\ Len(s) = Len(w)
    /\ \A k \in 1..Len(s) :
          \/ s[k] = w[k]
          \/ s[k] \in DOMAIN LowerOf /\ LowerOf[s[k]] = w[k]

\* C18: the CORS origins of a stage's API follow the stage in lower case:
\* "prod" allows only https://fortunasbet.com, "testing" allows
\* https://testing.fortunasbet.com and http://localhost:8080, any other
\* stage allows only http://localhost:8080; a prod API never allows
\* localhost.
C18_CorsOrigins ==
    \A i \in ApiStacks :
        LET origins == stacks[i].resources.defaultCorsPreflightOptions.allowOrigins
            isProd == sameWord(stacks[i].stage, <<"p", "r", "o", "d">>)
            isTesting ==
                sameWord(stacks[i].stage, <<"t", "e", "s", "t", "i", "n", "g">>)
        IN  /\ isProd => origins = <<"https://fortunasbet.com">>
            /\ isTesting =>
                  origins = <<"https://testing.fortunasbet.com",
                              "http://localhost:8080">>
            /\ ~isProd /\ ~isTesting => origins = <<"http://localhost:8080">>
            /\ isProd =>
                  \A k \in 1..Len(origins) : origins[k] # "http://localhost:8080"

\* the APIs of the stages "Prod" and "Testing" were constructed
C18_Witness ==
    /\ Len(stacks) >= 9
    /\ stacks[4].kind = "ApiStack"
    /\ stacks[4].stage = <<"P", "r", "o", "d">>
    /\ stacks[4].resources.defaultCorsPreflightOptions.allowOrigins =
          <<"https://fortunasbet.com">>
    /\ stacks[9].kind = "ApiStack"
    /\ stacks[9].stage = <<"T", "e", "s", "t", "i", "n", "g">>
    /\ Len(stacks[9].resources.defaultCorsPreflightOptions.allowOrigins) = 2

\* the WebsiteStacks of the app
WebsiteStacks == {i \in 1..Len(stacks) : stacks[i].kind = "WebsiteStack"}

\* C19: the stacks of two distinct stage keys have different website bucket
\* names and different access-logs bucket names, and within a stage the
\* website bucket name is not the access-logs bucket name.
C19_BucketNamesUnique ==
    /\ \A i, j \in WebsiteStacks :
          stacks[i].stage # stacks[j].stage =>
              /\ stacks[i].resources.siteBucket.props.bucketName #
                    stacks[j].resources.siteBucket.props.bucketName
              /\ stacks[i].resources.loggingBucket.props.bucketName #
                    stacks[j].resources.loggingBucket.props.bucketName
    /\ \A i \in WebsiteStacks :
          stacks[i].resources.siteBucket.props.bucketName #
            stacks[i].resources.loggingBucket.props.bucketName

\* the ApiDnsStacks of the app
ApiDnsStacks == {i \in 1..Len(stacks) : stacks[i].kind = "ApiDnsStack"}

\* C20: the alias record of an ApiDnsStack, "api" in the imported zone whose
\* name is the stage's website domain name, has the API custom domain,
\* apiDomainName, as its fully qualified name, for every stage
\* configuration.
C20_ApiRecordNamesCustomDomain ==
    \A i \in ApiDnsStacks :
        LET r == stacks[i].resources
        IN  /\ r.hostedZone.zoneName = configOf(stacks[i]).websiteDomainName
            /\ r.customDomain.domainName = configOf(stacks[i]).apiDomainName
            /\ r.aliasRecord.recordName \o <<".">> \o r.hostedZone.zoneName =
                  r.customDomain.domainName

\* the environment of the Lambda function of an ApiStack
environmentOf(i) == stacks[i].resources.fortunasBetApi.environment

\* C22: the Lambda environment of an ApiStack has STAGE equal to the stage
\* in lower case, and COGNITO_DOMAIN equal to
\* https://fortunasbet.auth.us-west-2.amazoncognito.com exactly when the
\* stage in lower case is "prod", and otherwise equal to
\* https://fortunasbet-<stage in lower case>.auth.us-west-2.amazoncognito.com;
\* two stages have the same COGNITO_DOMAIN exactly when their labels are
\* equal in lower case.
C22_LambdaEnvironment ==
    /\ \A i \in ApiStacks :
          LET e == environmentOf(i)
              isProd == sameWord(stacks[i].stage, <<"p", "r", "o", "d">>)
          IN  /\ sameWord(stacks[i].stage, e.STAGE)
              /\ \A k \in 1..Len(e.STAGE) : e.STAGE[k] \notin DOMAIN LowerOf
              /\ isProd <=> e.COGNITO_DOMAIN = ProdCognitoDomain
              /\ ~isProd =>
                    e.COGNITO_DOMAIN =
                      CognitoDomainPrefix \o e.STAGE \o CognitoDomainSuffix
    /\ \A i, j \in ApiStacks :
          environmentOf(i).COGNITO_DOMAIN = environmentOf(j).COGNITO_DOMAIN
            <=> environmentOf(i).STAGE = environmentOf(j).STAGE

\* the APIs of the stages "Prod" and "dev" were constructed, the first with
\* the prod domain and the second with a domain of its own
C22_Witness ==
    /\ Len(stacks) >= 9
    /\ stacks[4].kind = "ApiStack"
    /\ stacks[4].stage = <<"P", "r", "o", "d">>
    /\ environmentOf(4).COGNITO_DOMAIN = ProdCognitoDomain
    /\ stacks[9].kind = "ApiStack"
    /\ stacks[9].stage = <<"d", "e", "v">>
    /\ environmentOf(9).COGNITO_DOMAIN # ProdCognitoDomain
    /\ environmentOf(9).STAGE = <<"d", "e", "v">>

====
